---- MODULE Spec2Model ----
(***************************************************************************)
(* pscan: a concurrent TCP connect scanner (src/pscan.go).                 *)
(*                                                                         *)
(* Spec      the scan engine: runPortScan dispatching one scanPort         *)
(*           goroutine per port, the sync.WaitGroup, the network as seen   *)
(*           by the probes and the shared output stream.                   *)
(* SpecParse parsePortRange applied to range strings.                      *)
(* SpecMain  main: the command line, the checks before the scan, the port  *)
(*           range from the flags, then the scan of a range of the window. *)
(* SpecLive  the scan engine under fair scheduling.                        *)
(*                                                                         *)
(* Strings the code inspects (error texts, range strings, banners) are     *)
(* sequences of one-character strings.                                     *)
(***************************************************************************)
EXTENDS Integers, Sequences, FiniteSets, TLC

VARIABLES
    options,    \* ScanOptions the engine runs with (StartPort, EndPort, Threads, Verbose)
    pc,         \* position of runPortScan
    port,       \* loop variable of runPortScan
    wg,         \* counter of the sync.WaitGroup
    probe,      \* per port: position and locals (err, banner) of its scanPort goroutine
    net,        \* per port: what the network saw (dials, opens, closes, reads, writes)
    output,     \* lines written to standard output, in order
    rangeStr,   \* argument of parsePortRange
    parsed,     \* what parsePortRange returned
    flags,      \* main: the command line (Args: any argument given; Target, AllPorts, CommonOnly)
    lookup,     \* main: result of net.LookupHost ("pending", "ok", "fail")
    exit        \* exit status of the process, "none" while it runs

vars == <<options, pc, port, wg, probe, net, output, rangeStr, parsed, flags, lookup, exit>>

scanVars == <<options, pc, port, wg, probe, net, output>>
parseVars == <<rangeStr, parsed, flags, lookup, exit>>

----------------------------------------------------------------------------
(* Bounds of the model *)

FirstPort == 19     \* lowest port of the scanned window
LastPort == 22      \* highest port of the scanned window
MaxThreads == 3     \* largest concurrency limit
Near == 1           \* how far around a boundary value the range strings go
MaxZeros == 1       \* leading zeros put before a decimal token

Ports == FirstPort..LastPort

----------------------------------------------------------------------------
(* Texts *)

TxtTimeout == <<"i", "/", "o", " ", "t", "i", "m", "e", "o", "u", "t">>
TxtRefused == <<"c", "o", "n", "n", "e", "c", "t", "i", "o", "n", " ",
                "r", "e", "f", "u", "s", "e", "d">>
TxtUnreachable == <<"n", "o", " ", "r", "o", "u", "t", "e">>
\* a lookup of a host named "refused" that timed out: both words occur
TxtBoth == <<"r", "e", "f", "u", "s", "e", "d", ":", " ",
             "t", "i", "m", "e", "o", "u", "t">>

\* strings.Contains(s, sub)
Contains(s, sub) ==
    \E i \in 0..(Len(s) - Len(sub)) : SubSeq(s, i + 1, i + Len(sub)) = sub

NilErr == [nil |-> TRUE, text |-> <<>>]
Err(text) == [nil |-> FALSE, text |-> text]

\* what dialer.Dial can return
DialResults == {NilErr, Err(TxtTimeout), Err(TxtRefused), Err(TxtUnreachable), Err(TxtBoth)}

\* what conn.Read can return in getBanner: an error, or the bytes read
ReadResults ==
    { [err |-> TRUE, data |-> <<>>],
      [err |-> FALSE, data |-> <<" ", "\n">>],
      [err |-> FALSE, data |-> <<"A", "\r", "\n", "B">>],
      [err |-> FALSE, data |-> <<" ", "A">>] }

----------------------------------------------------------------------------
(* Output lines *)

Line(kind, p, service, detail) ==
    [kind |-> kind, port |-> p, service |-> service, detail |-> detail]

StartLine == Line("start", 0, "", <<>>)
ThreadsLine == Line("threads", 0, "", <<>>)
CompleteLine == Line("complete", 0, "", <<>>)
OpenLine(p, service) == Line("open", p, service, <<>>)
BannerLine(p, banner) == Line("banner", p, "", banner)
FilteredLine(p) == Line("filtered", p, "", TxtTimeout)
ClosedLine(p, detail) == Line("closed", p, "", detail)

----------------------------------------------------------------------------
(* Pure functions of the scanner *)

\* getServiceName: the static table of common ports
commonPorts ==
    [p \in {20, 21, 22, 23, 25, 53, 80, 110, 111, 135, 139, 143, 443, 445,
            993, 995, 1723, 3306, 3389, 5900, 8080} |->
        CASE p = 20 -> "FTP-data" [] p = 21 -> "FTP" [] p = 22 -> "SSH"
          [] p = 23 -> "Telnet" [] p = 25 -> "SMTP" [] p = 53 -> "DNS"
          [] p = 80 -> "HTTP" [] p = 110 -> "POP3" [] p = 111 -> "RPC"
          [] p = 135 -> "RPC" [] p = 139 -> "NetBIOS" [] p = 143 -> "IMAP"
          [] p = 443 -> "HTTPS" [] p = 445 -> "SMB" [] p = 993 -> "IMAPS"
          [] p = 995 -> "POP3S" [] p = 1723 -> "PPTP" [] p = 3306 -> "MySQL"
          [] p = 3389 -> "RDP" [] p = 5900 -> "VNC" [] OTHER -> "HTTP-Proxy"]

getServiceNameNextPort(p) ==
    IF p + 1 \in DOMAIN commonPorts THEN commonPorts[p + 1] ELSE ""

getServiceName(p) == IF p \in DOMAIN commonPorts THEN commonPorts[p] ELSE ""

\* the line scanPort writes for a failed connection attempt (verbose mode)
FailureLineRefusedFirst(p, text) ==
    IF Contains(text, <<"r", "e", "f", "u", "s", "e", "d">>)
    THEN ClosedLine(p, TxtRefused)
    ELSE IF Contains(text, <<"t", "i", "m", "e", "o", "u", "t">>)
         THEN FilteredLine(p)
         ELSE ClosedLine(p, text)

FailureLine(p, text) ==
    IF Contains(text, <<"t", "i", "m", "e", "o", "u", "t">>)
    THEN FilteredLine(p)
    ELSE IF Contains(text, <<"r", "e", "f", "u", "s", "e", "d">>)
         THEN ClosedLine(p, TxtRefused)
         ELSE ClosedLine(p, text)

\* scanPort reports a failed attempt only in verbose mode
ReportsFailureNever(verbose) == FALSE
ReportsFailureAlways(verbose) == TRUE
ReportsFailure(verbose) == verbose

\* strings.TrimSpace
IsSpace(c) == c \in {" ", "\t", "\n", "\r"}

RECURSIVE TrimLeft(_)
TrimLeft(s) == IF s # <<>> /\ IsSpace(Head(s)) THEN TrimLeft(Tail(s)) ELSE s

RECURSIVE TrimRight(_)
TrimRight(s) ==
    IF s # <<>> /\ IsSpace(s[Len(s)]) THEN TrimRight(SubSeq(s, 1, Len(s) - 1)) ELSE s

TrimSpace(s) == TrimRight(TrimLeft(s))

\* strings.Split(s, sep) for a one-character separator
RECURSIVE Split(_, _)
Split(s, sep) ==
    IF \A i \in 1..Len(s) : s[i] # sep
    THEN <<s>>
    ELSE LET i == CHOOSE k \in 1..Len(s) :
                      s[k] = sep /\ \A j \in 1..(k - 1) : s[j] # sep
         IN <<SubSeq(s, 1, i - 1)>> \o Split(SubSeq(s, i + 1, Len(s)), sep)

maxLen == 80

\* getBanner, after the read
getBannerErrorText(read) ==
    IF read.err THEN <<"E", "O", "F">>
    ELSE TrimSpace(Split(TrimSpace(read.data), "\n")[1])

\* getBanner, after the read: "" on a read error, else the cleaned first line
getBanner(read) ==
    IF read.err THEN <<>>
    ELSE LET line == TrimSpace(Split(TrimSpace(read.data), "\n")[1])
         IN IF Len(line) > maxLen
            THEN SubSeq(line, 1, maxLen) \o <<".", ".", ".">>
            ELSE line

\* getBanner sends a request first on the HTTP ports
SendsRequest(p) == p = 80 \/ p = 443 \/ p = 8080

----------------------------------------------------------------------------
(* runPortScan *)

\* loop condition of runPortScan
LoopCondExclusive(p, endPort) == p < endPort
LoopCond(p, endPort) == p <= endPort

\* Go's x % y for y # 0: the remainder of the truncated division
Rem(x, y) ==
    LET d == IF y < 0 THEN 0 - y ELSE y
    IN IF x >= 0 THEN x % d ELSE 0 - ((0 - x) % d)

\* "Limit concurrent goroutines": the test that decides a drain inside the loop
AtBatchEndOffByOne(p, threads) == p % (threads + 1) = 0
AtBatchEndNever(p, threads) == FALSE
AtBatchEnd(p, threads) == Rem(p, threads) = 0

\* wg.Wait() returns when the counter is zero
WaitReturnsAtOnce(counter) == TRUE
WaitReturns(counter) == counter = 0

Idle == [pc |-> "none", err |-> NilErr, banner |-> <<>>]
Quiet == [dials |-> 0, opens |-> 0, closes |-> 0, reads |-> 0, writes |-> 0]

ScanInit ==
    /\ options \in [StartPort : Ports, EndPort : Ports,
                    Threads : 1..MaxThreads, Verbose : BOOLEAN]
    /\ options.StartPort < options.EndPort
    /\ pc = "header"
    /\ port = options.StartPort
    /\ wg = 0
    /\ probe = [p \in Ports |-> Idle]
    /\ net = [p \in Ports |-> Quiet]
    /\ output = <<>>

\* the two header lines
HeaderSkipsFirst ==
    /\ pc = "header"
    /\ output' = IF options.Verbose THEN <<StartLine, ThreadsLine>> ELSE <<StartLine>>
    /\ port' = options.StartPort + 1
    /\ pc' = "loop"
    /\ UNCHANGED <<options, wg, probe, net, parseVars>>

\* the two header lines
Header ==
    /\ pc = "header"
    /\ output' = IF options.Verbose THEN <<StartLine, ThreadsLine>> ELSE <<StartLine>>
    /\ port' = options.StartPort
    /\ pc' = "loop"
    /\ UNCHANGED <<options, wg, probe, net, parseVars>>

\* wg.Add(1); go scanPort(options, port, &wg)
Dispatch ==
    /\ pc = "loop"
    /\ LoopCond(port, options.EndPort)
    /\ wg' = wg + 1
    /\ probe' = [probe EXCEPT ![port].pc = "dial"]
    /\ pc' = "limit"
    /\ UNCHANGED <<options, port, net, output, parseVars>>

\* if port%options.Threads == 0 { wg.Wait() }, not at a batch end: port++
NoDrain ==
    /\ pc = "limit"
    /\ options.Threads # 0
    /\ ~AtBatchEnd(port, options.Threads)
    /\ port' = port + 1
    /\ pc' = "loop"
    /\ UNCHANGED <<options, wg, probe, net, output, parseVars>>

\* at a batch end: enter wg.Wait()
BeginDrain ==
    /\ pc = "limit"
    /\ options.Threads # 0
    /\ AtBatchEnd(port, options.Threads)
    /\ pc' = "drain"
    /\ UNCHANGED <<options, port, wg, probe, net, output, parseVars>>

\* wg.Wait() inside the loop returns; port++
EndDrain ==
    /\ pc = "drain"
    /\ WaitReturns(wg)
    /\ port' = port + 1
    /\ pc' = "loop"
    /\ UNCHANGED <<options, wg, probe, net, output, parseVars>>

\* the loop ends; enter the final wg.Wait()
LoopExitNoWait ==
    /\ pc = "loop"
    /\ ~LoopCond(port, options.EndPort)
    /\ pc' = "complete"
    /\ UNCHANGED <<options, port, wg, probe, net, output, parseVars>>

LoopExit ==
    /\ pc = "loop"
    /\ ~LoopCond(port, options.EndPort)
    /\ pc' = "final_wait"
    /\ UNCHANGED <<options, port, wg, probe, net, output, parseVars>>

\* the final wg.Wait() returns
FinalWait ==
    /\ pc = "final_wait"
    /\ WaitReturns(wg)
    /\ pc' = "complete"
    /\ UNCHANGED <<options, port, wg, probe, net, output, parseVars>>

\* fmt.Println("Scan complete!")
Complete ==
    /\ pc = "complete"
    /\ output' = Append(output, CompleteLine)
    /\ pc' = "done"
    /\ UNCHANGED <<options, port, wg, probe, net, parseVars>>

----------------------------------------------------------------------------
(* scanPort, one goroutine per dispatched port *)

\* dialer.Dial and the branch on its error
Dial(p) ==
    /\ probe[p].pc = "dial"
    /\ \E err \in DialResults :
        /\ net' = [net EXCEPT ![p].dials = @ + 1,
                              ![p].opens = @ + (IF err.nil THEN 1 ELSE 0)]
        /\ probe' = [probe EXCEPT ![p] =
                        [pc |-> IF err.nil THEN "open"
                                ELSE IF ReportsFailure(options.Verbose) THEN "failed"
                                ELSE "wg_done",
                         err |-> err, banner |-> <<>>]]
    /\ UNCHANGED <<options, pc, port, wg, output, parseVars>>

\* the open line, with the service name when the table has one
EmitOpen(p) ==
    /\ probe[p].pc = "open"
    /\ output' = Append(output, OpenLine(p, getServiceName(p)))
    /\ probe' = [probe EXCEPT ![p].pc = IF options.Verbose THEN "banner" ELSE "close"]
    /\ UNCHANGED <<options, pc, port, wg, net, parseVars>>

\* getBanner(conn, port)
ReadBanner(p) ==
    /\ probe[p].pc = "banner"
    /\ \E read \in ReadResults :
        /\ net' = [net EXCEPT ![p].reads = @ + 1,
                              ![p].writes = @ + (IF SendsRequest(p) THEN 1 ELSE 0)]
        /\ probe' = [probe EXCEPT ![p].banner = getBanner(read),
                                  ![p].pc = IF getBanner(read) # <<>>
                                            THEN "banner_line" ELSE "close"]
    /\ UNCHANGED <<options, pc, port, wg, output, parseVars>>

\* the banner line
EmitBanner(p) ==
    /\ probe[p].pc = "banner_line"
    /\ output' = Append(output, BannerLine(p, probe[p].banner))
    /\ probe' = [probe EXCEPT ![p].pc = "close"]
    /\ UNCHANGED <<options, pc, port, wg, net, parseVars>>

\* deferred conn.Close()
CloseSkipped(p) ==
    /\ probe[p].pc = "close"
    /\ probe' = [probe EXCEPT ![p].pc = "wg_done"]
    /\ UNCHANGED <<options, pc, port, wg, net, output, parseVars>>

\* deferred conn.Close()
Close(p) ==
    /\ probe[p].pc = "close"
    /\ net' = [net EXCEPT ![p].closes = @ + 1]
    /\ probe' = [probe EXCEPT ![p].pc = "wg_done"]
    /\ UNCHANGED <<options, pc, port, wg, output, parseVars>>

\* the closed / filtered line of verbose mode
EmitFailure(p) ==
    /\ probe[p].pc = "failed"
    /\ output' = Append(output, FailureLine(p, probe[p].err.text))
    /\ probe' = [probe EXCEPT ![p].pc = "wg_done"]
    /\ UNCHANGED <<options, pc, port, wg, net, parseVars>>

\* deferred wg.Done(); the goroutine ends
DoneOnlyOnSuccess(p) ==
    /\ probe[p].pc = "wg_done"
    /\ wg' = IF probe[p].err.nil THEN wg - 1 ELSE wg
    /\ probe' = [probe EXCEPT ![p] = [pc |-> "done", err |-> NilErr, banner |-> <<>>]]
    /\ UNCHANGED <<options, pc, port, net, output, parseVars>>

\* deferred wg.Done(); the goroutine ends
Done(p) ==
    /\ probe[p].pc = "wg_done"
    /\ wg' = wg - 1
    /\ probe' = [probe EXCEPT ![p] = [pc |-> "done", err |-> NilErr, banner |-> <<>>]]
    /\ UNCHANGED <<options, pc, port, net, output, parseVars>>

ScanPort ==
    \E p \in Ports :
        \/ Dial(p)
        \/ EmitOpen(p)
        \/ ReadBanner(p)
        \/ EmitBanner(p)
        \/ Close(p)
        \/ EmitFailure(p)
        \/ Done(p)

----------------------------------------------------------------------------
(* parsePortRange *)

maxPort == 65535

Digits == <<"0", "1", "2", "3", "4", "5", "6", "7", "8", "9">>
IsDigit(c) == \E d \in 1..10 : Digits[d] = c
DigitVal(c) == (CHOOSE d \in 1..10 : Digits[d] = c) - 1

RECURSIVE DigitsVal(_, _)
DigitsVal(s, acc) ==
    IF s = <<>> THEN acc ELSE DigitsVal(Tail(s), acc * 10 + DigitVal(Head(s)))

\* strconv.Atoi on a token shorter than 19 characters: an optional sign, then
\* one or more decimal digits; anything else is a syntax error
Atoi(tok) ==
    LET signed == tok # <<>> /\ Head(tok) \in {"+", "-"}
        body == IF signed THEN Tail(tok) ELSE tok
    IN IF body = <<>> \/ \E i \in 1..Len(body) : ~IsDigit(body[i])
       THEN [ok |-> FALSE, val |-> 0]
       ELSE [ok |-> TRUE,
             val |-> IF signed /\ Head(tok) = "-"
                     THEN 0 - DigitsVal(body, 0) ELSE DigitsVal(body, 0)]

NoError == [nil |-> TRUE, msg |-> "", arg |-> <<>>]
Errorf(msg, arg) == [nil |-> FALSE, msg |-> msg, arg |-> arg]

ErrFormat == Errorf("invalid port range format, use: startPort-endPort", <<>>)
ErrStartToken(tok) == Errorf("invalid start port: %s", tok)
ErrEndToken(tok) == Errorf("invalid end port: %s", tok)
ErrStartLow == Errorf("start port must be 1 or greater", <<>>)
ErrEndNotGreater == Errorf("end port must be greater than start port", <<>>)
ErrEndHigh == Errorf("end port must be less than or equal to 65535", <<>>)

Returned(startPort, endPort, err) ==
    [called |-> TRUE, start |-> startPort, end |-> endPort, err |-> err]

\* "Validate port range": the three range checks, in the order of the code
ValidateAcceptEqual(startPort, endPort) ==
    IF startPort < 1 THEN ErrStartLow
    ELSE IF endPort < startPort THEN ErrEndNotGreater
    ELSE IF endPort > maxPort THEN ErrEndHigh
    ELSE NoError

ValidateLimitFirst(startPort, endPort) ==
    IF startPort < 1 THEN ErrStartLow
    ELSE IF endPort > maxPort THEN ErrEndHigh
    ELSE IF endPort <= startPort THEN ErrEndNotGreater
    ELSE NoError

Validate(startPort, endPort) ==
    IF startPort < 1 THEN ErrStartLow
    ELSE IF endPort <= startPort THEN ErrEndNotGreater
    ELSE IF endPort > maxPort THEN ErrEndHigh
    ELSE NoError

parsePortRange(s) ==
    LET ports == Split(s, "-") IN
    IF Len(ports) # 2 THEN Returned(0, 0, ErrFormat)
    ELSE LET startPort == Atoi(ports[1])
             endPort == Atoi(ports[2])
         IN IF ~startPort.ok THEN Returned(0, 0, ErrStartToken(ports[1]))
            ELSE IF ~endPort.ok THEN Returned(0, 0, ErrEndToken(ports[2]))
            ELSE IF ~Validate(startPort.val, endPort.val).nil
                 THEN Returned(0, 0, Validate(startPort.val, endPort.val))
                 ELSE Returned(startPort.val, endPort.val, NoError)

NotCalled == [called |-> FALSE, start |-> 0, end |-> 0, err |-> NoError]

\* decimal numeral of a natural number
RECURSIVE Dec(_)
Dec(n) == IF n < 10 THEN <<Digits[n + 1]>> ELSE Dec(n \div 10) \o <<Digits[(n % 10) + 1]>>

Zeros(z) == [i \in 1..z |-> "0"]

\* the range string "s-e", with zs and ze leading zeros
RangeOf(s, zs, e, ze) == Zeros(zs) \o Dec(s) \o <<"-">> \o Zeros(ze) \o Dec(e)

\* numbers around the limits of the validation rules
SampleInts ==
    (0..(1 + Near)) \cup {10, 50, 100} \cup ((maxPort - Near)..(maxPort + Near)) \cup {99999}

\* strings that are not two decimal numerals around one hyphen
Malformed ==
    { <<>>,
      <<"1", "0">>,
      <<"-">>,
      <<"1", "-">>,
      <<"-", "5", "-", "1", "0">>,
      <<"1", "-", "2", "-", "3">>,
      <<"a", "-", "b", "-", "c">>,
      <<"a", "b", "c", "-", "1", "0">>,
      <<"a", "b", "c", "-", "x", "y", "z">>,
      <<"0", "-", "a", "b", "c">>,
      <<"1", "-", "1", "0", "x">>,
      <<"+", "5", "-", "+", "1", "0">>,
      <<" ", "1", "-", "1", "0">> }

RangeStrings ==
    { RangeOf(s, zs, e, ze) : s \in SampleInts, zs \in 0..MaxZeros,
                              e \in SampleInts, ze \in 0..MaxZeros }
    \cup Malformed

\* a command line that names a target, with neither mode flag
Resolved == [Args |-> TRUE, Target |-> "host", AllPorts |-> FALSE, CommonOnly |-> FALSE]

\* main before runPortScan: zero-valued options, nothing dispatched
ParseInit ==
    /\ rangeStr \in RangeStrings
    /\ parsed = NotCalled
    /\ options = [StartPort |-> 0, EndPort |-> 0, Threads |-> 100, Verbose |-> FALSE]
    /\ pc = "main"
    /\ port = 0
    /\ wg = 0
    /\ probe = [p \in Ports |-> Idle]
    /\ net = [p \in Ports |-> Quiet]
    /\ output = <<>>
    /\ flags = Resolved
    /\ lookup = "ok"
    /\ exit = "none"

\* options.StartPort, options.EndPort, err = parsePortRange(portRange)
CallParsePortRange ==
    /\ pc = "main"
    /\ ~parsed.called
    /\ parsed' = parsePortRange(rangeStr)
    /\ options' = [options EXCEPT !.StartPort = parsed'.start, !.EndPort = parsed'.end]
    /\ UNCHANGED <<rangeStr, pc, port, wg, probe, net, output, flags, lookup, exit>>

NextParse == CallParsePortRange

SpecParse == ParseInit /\ [][NextParse]_vars

----------------------------------------------------------------------------
(* main *)

UsageLine == Line("usage", 0, "", <<>>)
ErrorLine(kind) == Line(kind, 0, "", <<>>)

\* "Set port range based on flags": -all, else -common, else the parsed -ports value
PortRangeForCommonFirst(all, common, s) ==
    IF common THEN [called |-> FALSE, start |-> 1, end |-> 1024, err |-> NoError]
    ELSE IF all THEN [called |-> FALSE, start |-> 1, end |-> 65535, err |-> NoError]
    ELSE parsePortRange(s)

PortRangeFor(all, common, s) ==
    IF all THEN [called |-> FALSE, start |-> 1, end |-> 65535, err |-> NoError]
    ELSE IF common THEN [called |-> FALSE, start |-> 1, end |-> 1024, err |-> NoError]
    ELSE parsePortRange(s)

\* default of the -ports flag, "1-1000"
DefaultRange == RangeOf(1, 0, 1000, 0)

\* -ports values given on the command line: a two-port range of the window,
\* a range with end = start, a token that is no number, a start below 1
MainRanges ==
    { DefaultRange,
      RangeOf(LastPort - 1, 0, LastPort, 0),
      RangeOf(LastPort, 0, LastPort, 0),
      <<"a", "b", "c", "-", "1", "0">>,
      <<"0", "-", "1", "0">> }

\* -threads values: flag.IntVar accepts every integer; 100 is the default
ThreadFlags == ((0 - 1)..MaxThreads) \cup {100}

MainInit ==
    /\ flags \in [Args : BOOLEAN, Target : {"", "host"},
                  AllPorts : BOOLEAN, CommonOnly : BOOLEAN]
    /\ rangeStr \in MainRanges
    /\ options \in [StartPort : {0}, EndPort : {0}, Threads : ThreadFlags, Verbose : BOOLEAN]
    /\ ~flags.Args =>
          /\ flags.Target = "" /\ ~flags.AllPorts /\ ~flags.CommonOnly
          /\ rangeStr = DefaultRange
          /\ options.Threads = 100 /\ ~options.Verbose
    /\ parsed = NotCalled
    /\ lookup = "pending"
    /\ exit = "none"
    /\ pc = "args"
    /\ port = 0
    /\ wg = 0
    /\ probe = [p \in Ports |-> Idle]
    /\ net = [p \in Ports |-> Quiet]
    /\ output = <<>>

\* if len(os.Args) == 1: usage, os.Exit(0)
CheckArgs ==
    /\ pc = "args"
    /\ IF flags.Args
       THEN pc' = "target" /\ UNCHANGED <<output, exit>>
       ELSE /\ output' = Append(output, UsageLine)
            /\ exit' = "0"
            /\ pc' = "exited"
    /\ UNCHANGED <<options, port, wg, probe, net, rangeStr, parsed, flags, lookup>>

\* "Validate target": an empty target is an error, os.Exit(1)
ValidateTargetNoExit ==
    /\ pc = "target"
    /\ IF flags.Target = ""
       THEN /\ output' = Append(output, ErrorLine("error_target"))
            /\ pc' = "resolve"
            /\ UNCHANGED exit
       ELSE pc' = "resolve" /\ UNCHANGED <<output, exit>>
    /\ UNCHANGED <<options, port, wg, probe, net, rangeStr, parsed, flags, lookup>>

ValidateTarget ==
    /\ pc = "target"
    /\ IF flags.Target = ""
       THEN /\ output' = Append(output, ErrorLine("error_target"))
            /\ exit' = "1"
            /\ pc' = "exited"
       ELSE pc' = "resolve" /\ UNCHANGED <<output, exit>>
    /\ UNCHANGED <<options, port, wg, probe, net, rangeStr, parsed, flags, lookup>>

\* net.LookupHost(options.Target): a failure is an error, os.Exit(1)
ResolveHost ==
    /\ pc = "resolve"
    /\ \E ok \in BOOLEAN :
          IF ok
          THEN lookup' = "ok" /\ pc' = "range" /\ UNCHANGED <<output, exit>>
          ELSE /\ lookup' = "fail"
               /\ output' = Append(output, ErrorLine("error_resolve"))
               /\ exit' = "1"
               /\ pc' = "exited"
    /\ UNCHANGED <<options, port, wg, probe, net, rangeStr, parsed, flags>>

\* the port range from the flags, os.Exit(1) on a range error, else runPortScan(options)
SetPortRange ==
    /\ pc = "range"
    /\ parsed' = PortRangeFor(flags.AllPorts, flags.CommonOnly, rangeStr)
    /\ options' = [options EXCEPT !.StartPort = parsed'.start, !.EndPort = parsed'.end]
    /\ IF parsed'.err.nil
       THEN pc' = "header" /\ UNCHANGED <<output, exit>>
       ELSE /\ output' = Append(output, ErrorLine("error_range"))
            /\ exit' = "1"
            /\ pc' = "exited"
    /\ UNCHANGED <<port, wg, probe, net, rangeStr, flags, lookup>>

\* port % options.Threads with Threads = 0: integer divide by zero, the
\* runtime panics and the process ends with status 2
Panic ==
    /\ pc = "limit"
    /\ options.Threads = 0
    /\ pc' = "panic"
    /\ exit' = "2"
    /\ UNCHANGED <<options, port, wg, probe, net, output, rangeStr, parsed, flags, lookup>>

\* the scanned interval lies in the window of ports the model follows
InWindow == options.StartPort \in Ports /\ options.EndPort \in Ports

Init ==
    /\ ScanInit
    /\ rangeStr = <<>>
    /\ parsed = NotCalled
    /\ flags = Resolved
    /\ lookup = "ok"
    /\ exit = "none"

Next ==
    \/ Header
    \/ Dispatch
    \/ NoDrain
    \/ BeginDrain
    \/ EndDrain
    \/ LoopExit
    \/ FinalWait
    \/ Complete
    \/ ScanPort

Spec == Init /\ [][Next]_vars

\* the steps of runPortScan, and the steps of the goroutine of port p
Engine ==
    \/ Header
    \/ Dispatch
    \/ NoDrain
    \/ BeginDrain
    \/ EndDrain
    \/ LoopExit
    \/ FinalWait
    \/ Complete

ProbeStep(p) ==
    \/ Dial(p)
    \/ EmitOpen(p)
    \/ ReadBanner(p)
    \/ EmitBanner(p)
    \/ Close(p)
    \/ EmitFailure(p)
    \/ Done(p)

\* scans of the window without its last port
LiveInit ==
    /\ Init
    /\ options.EndPort < LastPort

\* the Go scheduler keeps running every goroutine that can take a step; a
\* dial ends by the dialer's timeout and a banner read by its deadline
SpecLive ==
    /\ LiveInit
    /\ [][Next]_vars
    /\ WF_vars(Engine)
    /\ \A p \in Ports : WF_vars(ProbeStep(p))

\* the whole program: main, then the scan while the process runs
NextMain ==
    \/ CheckArgs
    \/ ValidateTarget
    \/ ResolveHost
    \/ SetPortRange
    \/ Panic
    \/ (exit = "none" /\ InWindow /\ Next)

SpecMain == MainInit /\ [][NextMain]_vars

----------------------------------------------------------------------------
(* Vocabulary of the properties *)

Interval == options.StartPort..options.EndPort
Dispatched(p) == probe[p].pc # "none"
Finished(p) == probe[p].pc = "done"
InFlight == {p \in Ports : Dispatched(p) /\ ~Finished(p)}
Returned_ == pc \in {"complete", "done"}
PortKinds == {"open", "banner", "filtered", "closed"}
LinesOf(p) == {i \in 1..Len(output) : output[i].kind \in PortKinds /\ output[i].port = p}
LinesOfKind(p, kinds) == {i \in LinesOf(p) : output[i].kind \in kinds}
\* p and q lie in different batches: a multiple of the limit m with p <= m < q
BatchBetween(p, q) == \E m \in p..(q - 1) : m % options.Threads = 0

----------------------------------------------------------------------------
(* Scan engine properties *)

\* C1: no port is ever dialled twice and no port outside [StartPort, EndPort]
\* is ever dialled; once runPortScan has passed its final wait, every port of
\* the interval has been dialled exactly once.
C1_EachPortProbedOnce ==
    /\ \A p \in Ports : net[p].dials <= 1 /\ (p \notin Interval => net[p].dials = 0)
    /\ Returned_ => \A p \in Interval : net[p].dials = 1 /\ Finished(p)

C1_Witness ==
    /\ pc = "done"
    /\ options.Threads = 2
    /\ options.EndPort - options.StartPort >= 2
    /\ \A p \in Interval : net[p].dials = 1

\* C2: the number of probes dispatched and not yet completed never exceeds
\* the concurrency limit.
C2_InFlightAtMostLimit ==
    /\ Cardinality(InFlight) <= options.Threads
    /\ wg = Cardinality(InFlight)

C2_Witness ==
    /\ options.Threads >= 2
    /\ Cardinality(InFlight) = options.Threads
    /\ \E p \in InFlight : probe[p].pc = "wg_done"

\* C3: once a multiple of the limit has been dispatched, a later port is
\* dispatched only when every probe up to that multiple has completed; the
\* engine waits inside the loop only after dispatching a multiple of the
\* limit, and waits otherwise only after the loop has passed the final port.
C3_DrainOnlyAtMultiples ==
    /\ \A p, q \in Ports :
          (Dispatched(p) /\ Dispatched(q) /\ p < q /\ p % options.Threads = 0)
              => \A r \in Ports : (r <= p /\ Dispatched(r)) => Finished(r)
    /\ pc = "drain" => (Dispatched(port) /\ port % options.Threads = 0)
    /\ pc = "final_wait" => (port = options.EndPort + 1 /\ Dispatched(options.EndPort))

C3_Witness ==
    /\ options.Threads >= 2
    /\ pc = "limit"
    /\ port % options.Threads # 0
    /\ \E p \in Interval : p < port /\ p % options.Threads = 0 /\ Finished(p)
    /\ Dispatched(port) /\ ~Finished(port)

\* C4: when a multiple of the limit lies between p and q (p <= m < q), the
\* probe of p has completed before q is dispatched and every output line of
\* p precedes every output line of q.
C4_BatchesInPortOrder ==
    /\ \A p, q \in Interval :
          (p < q /\ BatchBetween(p, q) /\ Dispatched(q)) => Finished(p)
    /\ \A j \in 1..Len(output) : \A i \in 1..(j - 1) :
          (output[i].kind \in PortKinds /\ output[j].kind \in PortKinds
              /\ output[j].port < output[i].port)
              => ~BatchBetween(output[j].port, output[i].port)

\* two probes of one batch wrote in descending port order, after an earlier batch wrote
C4_Witness ==
    /\ options.Threads >= 2
    /\ \E i, j, k \in 1..Len(output) :
          /\ i < j /\ j < k
          /\ output[i].kind \in PortKinds
          /\ output[j].kind \in PortKinds
          /\ output[k].kind \in PortKinds
          /\ BatchBetween(output[i].port, output[k].port)
          /\ output[j].port > output[k].port

\* C5: the completion line is written at most once, exactly once when
\* runPortScan has returned, and only as the last line of the output, when
\* every port of the interval has been dispatched and its probe has completed.
C5_CompleteLineLast ==
    LET at == {i \in 1..Len(output) : output[i].kind = "complete"} IN
    /\ Cardinality(at) <= 1
    /\ pc = "done" <=> Cardinality(at) = 1
    /\ at # {} =>
          /\ at = {Len(output)}
          /\ \A p \in Interval : Finished(p)
          /\ InFlight = {}

C5_Witness ==
    /\ pc = "done"
    /\ options.Verbose
    /\ output[Len(output)].kind = "complete"
    /\ \E i \in 1..Len(output) : output[i].kind = "banner"
    /\ \E i \in 1..Len(output) : output[i].kind = "filtered"

\* C6: a finished verbose scan on which no connection succeeded has written
\* exactly one line per port of the interval, closed or filtered, and no open
\* or banner line.
C6_VerboseAllFailed ==
    (pc = "done" /\ options.Verbose /\ \A p \in Ports : net[p].opens = 0) =>
        /\ \A p \in Interval :
              /\ Cardinality(LinesOf(p)) = 1
              /\ Cardinality(LinesOfKind(p, {"closed", "filtered"})) = 1
        /\ Cardinality({i \in 1..Len(output) : output[i].kind \in PortKinds})
              = options.EndPort - options.StartPort + 1

C6_Witness ==
    /\ pc = "done"
    /\ options.Verbose
    /\ options.EndPort - options.StartPort + 1 = 3
    /\ \A p \in Ports : net[p].opens = 0
    /\ \E i \in 1..Len(output) : output[i].kind = "closed"
    /\ \E i \in 1..Len(output) : output[i].kind = "filtered"

\* C7: with verbose off no banner read is made, every per-port line is an
\* open line, a port whose connection failed has no line, and a completed
\* probe whose connection succeeded has exactly one open line.
C7_QuietOnlyOpenLines ==
    ~options.Verbose =>
        \A p \in Ports :
            /\ net[p].reads = 0
            /\ LinesOf(p) = LinesOfKind(p, {"open"})
            /\ Cardinality(LinesOf(p)) <= net[p].opens
            /\ Finished(p) => Cardinality(LinesOf(p)) = net[p].opens

C7_Witness ==
    /\ pc = "done"
    /\ ~options.Verbose
    /\ \E p \in Interval : net[p].opens = 1 /\ Cardinality(LinesOf(p)) = 1
    /\ \E p \in Interval : net[p].opens = 0 /\ net[p].dials = 1

\* C8: the line written for a failed attempt follows from the error text: a
\* timeout text gives filtered, also when the text names a refusal as well;
\* a refusal text gives closed (connection refused); any other text gives
\* closed with the text itself; and an open line is written only by a probe
\* whose connection succeeded.
C8_FailureClassified ==
    [][\A p \in Ports :
          /\ (probe[p].pc = "failed" /\ probe'[p].pc # "failed") =>
                LET text == probe[p].err.text IN
                /\ ~probe[p].err.nil
                /\ text \in {TxtTimeout, TxtBoth} => output' = Append(output, FilteredLine(p))
                /\ text = TxtRefused =>
                      output' = Append(output, ClosedLine(p,
                          <<"c", "o", "n", "n", "e", "c", "t", "i", "o", "n", " ",
                            "r", "e", "f", "u", "s", "e", "d">>))
                /\ text = TxtUnreachable => output' = Append(output, ClosedLine(p, text))
          /\ (Len(output') > Len(output) /\ output'[Len(output')].kind = "open"
                  /\ output'[Len(output')].port = p) =>
                (probe[p].err.nil /\ net[p].opens = 1)
      ]_vars

\* a probe whose error text names both a refusal and a timeout has written filtered
C8_Witness ==
    \E p \in Interval :
        /\ probe[p].pc = "wg_done"
        /\ probe[p].err.text = TxtBoth
        /\ output # <<>>
        /\ output[Len(output)] = FilteredLine(p)

----------------------------------------------------------------------------
(* parsePortRange properties *)

Str100to50 == <<"1", "0", "0", "-", "5", "0">>
Str0to10 == <<"0", "-", "1", "0">>
Str1to99999 == <<"1", "-", "9", "9", "9", "9", "9">>
StrAbcTo10 == <<"a", "b", "c", "-", "1", "0">>

C10_FirstViolatedRule ==
    parsed.called =>
        /\ ~parsed.err.nil => (parsed.start = 0 /\ parsed.end = 0)
        /\ \A s \in SampleInts, e \in SampleInts, zs \in 0..MaxZeros, ze \in 0..MaxZeros :
              rangeStr = RangeOf(s, zs, e, ze) =>
                  parsed.err.msg =
                      IF s < 1 THEN "start port must be 1 or greater"
                      ELSE IF e <= s THEN "end port must be greater than start port"
                      ELSE IF e > 65535 THEN "end port must be less than or equal to 65535"
                      ELSE ""
        /\ rangeStr = Str100to50 =>
              parsed.err.msg = "end port must be greater than start port"
        /\ rangeStr = Str0to10 => parsed.err.msg = "start port must be 1 or greater"
        /\ rangeStr = Str1to99999 =>
              parsed.err.msg = "end port must be less than or equal to 65535"
        /\ rangeStr = StrAbcTo10 =>
              (parsed.err.msg = "invalid start port: %s" /\ parsed.err.arg = <<"a", "b", "c">>)
        /\ rangeStr \in {<<>>, <<"1", "0">>, <<"1", "-", "2", "-", "3">>,
                         <<"a", "-", "b", "-", "c">>, <<"-", "5", "-", "1", "0">>} =>
              parsed.err.msg = "invalid port range format, use: startPort-endPort"
        /\ rangeStr = <<"a", "b", "c", "-", "x", "y", "z">> =>
              (parsed.err.msg = "invalid start port: %s" /\ parsed.err.arg = <<"a", "b", "c">>)
        /\ rangeStr = <<"0", "-", "a", "b", "c">> =>
              (parsed.err.msg = "invalid end port: %s" /\ parsed.err.arg = <<"a", "b", "c">>)

\* a start beyond the limit with an end beyond it too fails on end > start
C10_Witness ==
    /\ parsed.called
    /\ rangeStr = <<"9", "9", "9", "9", "9", "-", "6", "5", "5", "3", "6">>
    /\ parsed = Returned(0, 0, ErrEndNotGreater)

----------------------------------------------------------------------------
(* main properties *)

\* main has chosen the port range
Ranged == lookup = "ok" /\ pc # "range"
\* main has passed its checks or has exited
Settled == pc \notin {"args", "target", "resolve", "range"}
NothingProbed ==
    /\ \A p \in Ports : ~Dispatched(p) /\ net[p].dials = 0
    /\ \A i \in 1..Len(output) : output[i].kind \notin ({"start", "complete"} \cup PortKinds)
RangeRejected ==
    ~flags.AllPorts /\ ~flags.CommonOnly /\ parsed.called /\ ~parsed.err.nil

\* C11: with -all the interval is (1, 65535), with -common and no -all it is
\* (1, 1024), whatever the -ports value; the -ports value is parsed only
\* when neither flag is set, and then decides the interval or ends the run.
C11_OverrideChain ==
    /\ parsed.called => (~flags.AllPorts /\ ~flags.CommonOnly)
    /\ Ranged =>
          /\ flags.AllPorts =>
                (options.StartPort = 1 /\ options.EndPort = 65535 /\ exit = "none")
          /\ (~flags.AllPorts /\ flags.CommonOnly) =>
                (options.StartPort = 1 /\ options.EndPort = 1024 /\ exit = "none")
          /\ (~flags.AllPorts /\ ~flags.CommonOnly) =>
                /\ parsed.called
                /\ options.StartPort = parsed.start /\ options.EndPort = parsed.end
                /\ parsed.err.nil <=> exit # "1"

\* -all and -common together with a -ports value that is no range
C11_Witness ==
    /\ pc = "header"
    /\ flags.AllPorts /\ flags.CommonOnly
    /\ rangeStr = <<"a", "b", "c", "-", "1", "0">>
    /\ options.StartPort = 1 /\ options.EndPort = 65535

\* C12 as stated: a missing target, a target that does not resolve, or a
\* rejected explicit range ends the process with a nonzero status before
\* anything is probed.
C12_MissingTargetNonzero ==
    (Settled /\ (flags.Target = "" \/ lookup = "fail" \/ RangeRejected)) =>
        (exit = "1" /\ NothingProbed)

\* C12 amended: the same when at least one argument is given; without any
\* argument the target is missing too, and the process prints the usage and
\* exits with status 0; in both cases nothing is probed.
C12_FatalBeforeScan ==
    /\ (Settled /\ ((flags.Args /\ flags.Target = "") \/ lookup = "fail" \/ RangeRejected)) =>
          (exit = "1" /\ NothingProbed)
    /\ (Settled /\ ~flags.Args) => (exit = "0" /\ NothingProbed)
    /\ exit \in {"0", "1"} => NothingProbed

C12_Witness ==
    /\ pc = "exited"
    /\ exit = "1"
    /\ RangeRejected
    /\ output = <<ErrorLine("error_range")>>

\* C15: runPortScan runs only with Threads >= 1 and the batch test never
\* aborts it.
C15_ThreadsPositive ==
    (Settled /\ pc # "exited") => (options.Threads >= 1 /\ pc # "panic")

----------------------------------------------------------------------------
(* Scan engine properties, continued *)

DispatchedPorts == {p \in Ports : Dispatched(p)}
\* the engine waits at the first drain of the scan
FirstDrain ==
    /\ pc = "drain"
    /\ \A p \in options.StartPort..(port - 1) : p % options.Threads # 0

C14_ConnectionsClosed ==
    /\ \A p \in Ports :
          /\ net[p].closes <= net[p].opens
          /\ net[p].opens <= 1
          /\ Finished(p) => net[p].closes = net[p].opens
          /\ probe[p].pc = "wg_done" => net[p].closes = net[p].opens
    /\ Returned_ => \A p \in Ports : net[p].closes = net[p].opens

\* after a banner read that gave no banner, and after a failed connect
C14_Witness ==
    /\ pc = "done"
    /\ options.Verbose
    /\ \E p \in Interval :
          net[p].opens = 1 /\ net[p].reads = 1 /\ net[p].closes = 1
              /\ LinesOfKind(p, {"banner"}) = {}
    /\ \E p \in Interval : net[p].opens = 0 /\ net[p].closes = 0 /\ net[p].dials = 1

\* C17: the port a step dispatches is StartPort when nothing was dispatched
\* before, and otherwise the port after the one dispatched last; no port
\* beyond EndPort is dispatched.
C17_AscendingDispatch ==
    [][\A q \in Ports :
          (~Dispatched(q) /\ probe'[q].pc # "none") =>
              /\ DispatchedPorts = options.StartPort..(q - 1)
              /\ q <= options.EndPort
              /\ \A r \in Ports \ {q} : probe'[r].pc = "none" <=> probe[r].pc = "none"
      ]_vars

C17_Witness ==
    /\ DispatchedPorts = options.StartPort..(options.StartPort + 2)
    /\ options.EndPort > options.StartPort + 2
    /\ ~Finished(options.StartPort + 2)

\* the service names of the ports of the window, from the table of the source
ServiceOf(p) ==
    CASE p = 20 -> "FTP-data" [] p = 21 -> "FTP" [] p = 22 -> "SSH"
      [] p = 23 -> "Telnet" [] OTHER -> ""

\* C18: an open line carries the service name of its port when the table
\* has one (22: SSH) and none otherwise; closed, filtered and banner lines
\* carry none; a completed probe of an open port has exactly one open line.
C18_ServiceOnOpenLines ==
    /\ \A i \in 1..Len(output) :
          /\ output[i].kind = "open" =>
                (output[i].service = ServiceOf(output[i].port)
                 /\ net[output[i].port].opens = 1)
          /\ output[i].kind # "open" => output[i].service = ""
    /\ \A p \in Ports :
          (Finished(p) /\ net[p].opens = 1) =>
              (Cardinality(LinesOfKind(p, {"open"})) = 1
               /\ Cardinality(LinesOfKind(p, {"closed", "filtered"})) = 0)

\* an open line of port 22 with SSH, and an open line of a port without a name
C18_Witness ==
    /\ Finished(22)
    /\ \E i \in 1..Len(output) : output[i] = OpenLine(22, "SSH")
    /\ Cardinality(LinesOfKind(22, {"open"})) = 1
    /\ \E i \in 1..Len(output) : output[i].kind = "open" /\ output[i].service = ""

\* getBanner on every read that ends in an error
ReadErrorsGiveNoBanner == \A read \in ReadResults : read.err => getBanner(read) = <<>>

\* C19: a port has at most one banner line; a banner line stands only in
\* verbose mode, after the open line of its port, with a banner that is not
\* empty; a read error gives the empty banner; a completed probe of an open
\* port has its open line, whatever the banner read gave.
C19_BannerLines ==
    /\ ReadErrorsGiveNoBanner
    /\ \A i \in 1..Len(output) :
          output[i].kind = "banner" =>
              /\ options.Verbose
              /\ net[output[i].port].opens = 1 /\ net[output[i].port].reads = 1
              /\ output[i].detail # <<>>
              /\ \E j \in 1..(i - 1) :
                    output[j].kind = "open" /\ output[j].port = output[i].port
              /\ \A j \in 1..(i - 1) :
                    output[j].kind = "banner" => output[j].port # output[i].port
    /\ \A p \in Ports :
          /\ probe[p].pc = "banner_line" => probe[p].banner # <<>>
          /\ (probe[p].pc = "close" /\ net[p].reads = 1 /\ probe[p].banner = <<>>)
                => LinesOfKind(p, {"banner"}) = {}
          /\ (Finished(p) /\ net[p].opens = 1) =>
                Cardinality(LinesOfKind(p, {"open"})) = 1

\* one probe wrote a banner line, another read no banner and completed
C19_Witness ==
    /\ options.Verbose
    /\ \E p \in Interval : Finished(p) /\ Cardinality(LinesOfKind(p, {"banner"})) = 1
    /\ \E p \in Interval :
          Finished(p) /\ net[p].reads = 1 /\ LinesOfKind(p, {"banner"}) = {}
              /\ Cardinality(LinesOfKind(p, {"open"})) = 1

\* C20: every banner line directly follows the open line of its port.
C20_BannerFollowsOpen ==
    \A i \in 1..Len(output) :
        output[i].kind = "banner" =>
            (i > 1 /\ output[i - 1].kind = "open" /\ output[i - 1].port = output[i].port)

----------------------------------------------------------------------------
(* Termination *)

\* C16: under fair scheduling every scan reaches the completion line with
\* every probe of the interval completed, whatever the probes' outcomes,
\* and every wait at a batch drain ends.
C16_ScanCompletes ==
    /\ <>(pc = "done" /\ output[Len(output)] = CompleteLine
              /\ \A p \in Interval : Finished(p))
    /\ (pc = "drain") ~> (pc = "loop")

\* a completed scan in which a probe failed before a drain and a later port opened
C16_Witness ==
    /\ pc = "done"
    /\ output[Len(output)] = CompleteLine
    /\ \E p, q \in Interval :
          /\ p < q
          /\ p % options.Threads = 0
          /\ net[p].dials = 1 /\ net[p].opens = 0
          /\ net[q].opens = 1

====
